---- MODULE Spec2Model ----
(***************************************************************************)
(* A model of persitent_usb.py: the provisioning pipeline of main(), the   *)
(* process runner run_cmd, and the mount manager (is_mounted,              *)
(* force_unmount, unmount_all).  The program is one sequential process;    *)
(* its control state is a call stack of frames, and every step of the      *)
(* model is one interaction of the program with its environment: an        *)
(* external command, a query of the file system, or a read of its input.   *)
(* The environment answers each interaction nondeterministically.          *)
(***************************************************************************)
EXTENDS Integers, Sequences, FiniteSets, TLC

VARIABLES
    stack,          \* call stack, main's frame first; <<>> once the process exited
    ret,            \* the value the last call or command returned
    exitCode,       \* the process's exit status, Running until it exits
    invocation,     \* how the program is started: argument count, user, what the two paths name
    typed,          \* the line the user types at the confirmation prompt
    exists,         \* the mount directories that exist (os.path.exists)
    mounted,        \* the mount targets that are mounted
    stages,         \* history: the pipeline stages started, in order
    touched,        \* history: a destructive or device-touching command was issued
    worst,          \* history: the gravest class of failure so far, "none" without one
    mountSinceSweep,\* history: a mount command was issued since the last completed unmount_all
    errorSweep,     \* history: an error handler's unmount_all ran to completion
    sweepRaised,    \* history: an exception that is no KeyboardInterrupt left unmount_all
    ladder,         \* history: what the force_unmount call in progress has issued and been answered
    cleanSweeps,    \* history: the unmount_all calls begun in a row with nothing mounted, up to 2
    guarded,        \* history: the critical mountpoints the device held when validate_device ran
    sizes,          \* the two size constants: esp is ESP_SIZE_MB, boot is BOOT_SIZE_GB
    plan,           \* history: the partitions the mkpart commands issued so far ask for
    probe,          \* a lone run_cmd call: how its process ends and the options it is given
    trail           \* history: the force_unmount calls and mount commands since the stage began

ctl == <<stack, ret, exitCode, sweepRaised>>
input == <<invocation, typed>>
world == <<exists, mounted>>
hist == <<stages, touched, worst, mountSinceSweep, errorSweep>>
\* the history a mount command writes
sinceMount == <<cleanSweeps, trail>>
\* the history a stage leaves alone but for its mount commands
auditElse == <<ladder, guarded, sizes, plan, probe>>
audit == <<ladder, cleanSweeps, guarded, sizes, plan, probe, trail>>
vars == <<stack, ret, exitCode, invocation, typed, exists, mounted,
          stages, touched, worst, mountSinceSweep, errorSweep, sweepRaised,
          ladder, cleanSweeps, guarded, sizes, plan, probe, trail>>

(***************************************************************************)
(* Constants of the program.                                               *)
(***************************************************************************)
ISO_MOUNT == "/mnt/iso_temp"
USB_BOOT == "/mnt/usb_boot"
USB_PERSIST == "/mnt/usb_persist"
ESP_MOUNT == "/mnt/esp_temp"

\* all_mounts of unmount_all, in the order the code lists them
all_mounts == <<ISO_MOUNT, USB_BOOT, USB_PERSIST, ESP_MOUNT, "/mnt/iso", "/mnt/usb", "/mnt/esp">>

\* the directories prepare_mount_points creates
prepared_mounts == {ISO_MOUNT, USB_BOOT, USB_PERSIST, ESP_MOUNT}

\* force_unmount's default max_attempts
max_attempts == 3

\* the partition sizes, lines 22-23
BOOT_SIZE_GB == 4
ESP_SIZE_MB == 512

\* a place outside the pipeline's mount points where the host auto-mounted
\* the first partition of the target device
MEDIA == "/media/usb"

\* validate_device's critical_mounts, line 603
critical_mounts == {"/", "/boot", "/boot/efi", "/home", "/usr", "/var"}

\* places of the running system where a partition of the target device can be
\* mounted when the device named is a disk in use
SystemTargets == {"/", "/boot/efi", "/home", "/home/user"}

MountTargets == {all_mounts[k] : k \in 1..Len(all_mounts)} \cup {MEDIA} \cup SystemTargets

\* the partition of the target device behind a mount target; 0: not of the device
\* (get_partition_names: part1 is the ESP, part2 boot, part3 persistence)
Backing(t) ==
    CASE t \in {ESP_MOUNT, MEDIA, "/boot/efi"} -> 1
      [] t \in {USB_BOOT, "/"} -> 2
      [] t \in {USB_PERSIST, "/home", "/home/user"} -> 3
      [] OTHER -> 0

Running == 0 - 1
\* the prompt reads no line: the input is at its end
EOF == <<"eof">>

(***************************************************************************)
(* Bounds of the model.                                                    *)
(***************************************************************************)
\* at most this many mount targets are mounted when the program starts
MaxLeftover == 1

(***************************************************************************)
(* The process runner.  An external process ends in one of these ways;     *)
(* "sigint" is a KeyboardInterrupt delivered while the program waits for   *)
(* it.                                                                     *)
(***************************************************************************)
Outcomes == {"ok", "nonzero", "timeout", "oserror", "sigint"}

\* the outcomes a command can have: no timeout when none is set
OutcomesOf(timed) == IF timed THEN Outcomes ELSE Outcomes \ {"timeout"}

Truthy(v) == v \in {"True", "Out"}

\* a variant of run_cmd without the except subprocess.TimeoutExpired clause:
\* the timeout reaches the caller as an exception
run_cmd_TimeoutRaises(o, nonempty, check, capture, ignore_error) ==
    CASE o = "sigint" -> [val |-> "None", raise |-> "KeyboardInterrupt"]
      [] o = "timeout" -> [val |-> "None", raise |-> "Exception"]
      [] o = "oserror" -> [val |-> "False", raise |-> "none"]
      [] o = "nonzero" /\ (capture \/ check) ->
            [val |-> IF ignore_error THEN "None" ELSE "False", raise |-> "none"]
      [] o = "nonzero" /\ ~capture /\ ~check -> [val |-> "True", raise |-> "none"]
      [] o = "ok" /\ capture ->
            [val |-> IF nonempty THEN "Out" ELSE "Empty", raise |-> "none"]
      [] o = "ok" /\ ~capture -> [val |-> "True", raise |-> "none"]

\* a variant of run_cmd without the final except Exception clause: an error
\* of the spawn reaches the caller as an exception
run_cmd_SpawnRaises(o, nonempty, check, capture, ignore_error) ==
    CASE o = "sigint" -> [val |-> "None", raise |-> "KeyboardInterrupt"]
      [] o = "timeout" ->
            [val |-> IF ignore_error THEN "None" ELSE "False", raise |-> "none"]
      [] o = "oserror" -> [val |-> "None", raise |-> "Exception"]
      [] o = "nonzero" /\ (capture \/ check) ->
            [val |-> IF ignore_error THEN "None" ELSE "False", raise |-> "none"]
      [] o = "nonzero" /\ ~capture /\ ~check -> [val |-> "True", raise |-> "none"]
      [] o = "ok" /\ capture ->
            [val |-> IF nonempty THEN "Out" ELSE "Empty", raise |-> "none"]
      [] o = "ok" /\ ~capture -> [val |-> "True", raise |-> "none"]

\* run_cmd(cmd, check, capture, ignore_error): what it returns, or raises,
\* when the process ends with outcome o; nonempty: the process printed something
run_cmd(o, nonempty, check, capture, ignore_error) ==
    CASE o = "sigint" -> [val |-> "None", raise |-> "KeyboardInterrupt"]
      [] o = "timeout" ->
            [val |-> IF ignore_error THEN "None" ELSE "False", raise |-> "none"]
      [] o = "oserror" -> [val |-> "False", raise |-> "none"]
      [] o = "nonzero" /\ (capture \/ check) ->
            [val |-> IF ignore_error THEN "None" ELSE "False", raise |-> "none"]
      [] o = "nonzero" /\ ~capture /\ ~check -> [val |-> "True", raise |-> "none"]
      [] o = "ok" /\ capture ->
            [val |-> IF nonempty THEN "Out" ELSE "Empty", raise |-> "none"]
      [] o = "ok" /\ ~capture -> [val |-> "True", raise |-> "none"]

(***************************************************************************)
(* Control: frames, calls, returns and exceptions.                         *)
(***************************************************************************)
\* a frame: the function, its position, its path argument, its loop counter, and
\* (wait_for_partitions, unmount_all) the partition nodes it has seen
Frame(fn, pc, arg, i) == [fn |-> fn, pc |-> pc, arg |-> arg, i |-> i, seen |-> {}]

Top == stack[Len(stack)]

At(fn, pc) == stack # <<>> /\ Top.fn = fn /\ Top.pc = pc

WithTop(stk, pc, i) == [stk EXCEPT ![Len(stk)] = [@ EXCEPT !.pc = pc, !.i = i]]

Pop(stk) == SubSeq(stk, 1, Len(stk) - 1)

\* a variant of main's try block that copies the image before the subvolumes
\* are set up
TryBody_CopyFirst == <<
    [call |-> "check_requirements",     stage |-> "",                      fatal |-> FALSE],
    [call |-> "unmount_all",            stage |-> "Unmount-All",           fatal |-> FALSE],
    [call |-> "create_partitions",      stage |-> "Create-Partitions",     fatal |-> FALSE],
    [call |-> "copy_iso_contents",      stage |-> "Copy-Image-Contents",   fatal |-> TRUE],
    [call |-> "setup_btrfs_subvolumes", stage |-> "Setup-Subvolumes",      fatal |-> FALSE],
    [call |-> "configure_persistence",  stage |-> "Configure-Persistence", fatal |-> TRUE],
    [call |-> "install_bootloader",     stage |-> "Install-Bootloader",    fatal |-> FALSE],
    [call |-> "create_readme",          stage |-> "Create-Readme",         fatal |-> FALSE],
    [call |-> "unmount_all",            stage |-> "Final-Cleanup",         fatal |-> FALSE],
    [call |-> "sync",                   stage |-> "",                      fatal |-> FALSE] >>

\* a variant of main's try block that calls copy_iso_contents without looking
\* at what it returns
TryBody_CopyUnchecked == <<
    [call |-> "check_requirements",     stage |-> "",                      fatal |-> FALSE],
    [call |-> "unmount_all",            stage |-> "Unmount-All",           fatal |-> FALSE],
    [call |-> "create_partitions",      stage |-> "Create-Partitions",     fatal |-> FALSE],
    [call |-> "setup_btrfs_subvolumes", stage |-> "Setup-Subvolumes",      fatal |-> FALSE],
    [call |-> "copy_iso_contents",      stage |-> "Copy-Image-Contents",   fatal |-> FALSE],
    [call |-> "configure_persistence",  stage |-> "Configure-Persistence", fatal |-> TRUE],
    [call |-> "install_bootloader",     stage |-> "Install-Bootloader",    fatal |-> FALSE],
    [call |-> "create_readme",          stage |-> "Create-Readme",         fatal |-> FALSE],
    [call |-> "unmount_all",            stage |-> "Final-Cleanup",         fatal |-> FALSE],
    [call |-> "sync",                   stage |-> "",                      fatal |-> FALSE] >>

\* main's try block, lines 707-735: the calls in order; "stage" names the
\* pipeline stage a call is, "fatal" says that main raises when it returns false
TryBody == <<
    [call |-> "check_requirements",     stage |-> "",                      fatal |-> FALSE],
    [call |-> "unmount_all",            stage |-> "Unmount-All",           fatal |-> FALSE],
    [call |-> "create_partitions",      stage |-> "Create-Partitions",     fatal |-> FALSE],
    [call |-> "setup_btrfs_subvolumes", stage |-> "Setup-Subvolumes",      fatal |-> FALSE],
    [call |-> "copy_iso_contents",      stage |-> "Copy-Image-Contents",   fatal |-> TRUE],
    [call |-> "configure_persistence",  stage |-> "Configure-Persistence", fatal |-> TRUE],
    [call |-> "install_bootloader",     stage |-> "Install-Bootloader",    fatal |-> FALSE],
    [call |-> "create_readme",          stage |-> "Create-Readme",         fatal |-> FALSE],
    [call |-> "unmount_all",            stage |-> "Final-Cleanup",         fatal |-> FALSE],
    [call |-> "sync",                   stage |-> "",                      fatal |-> FALSE] >>

\* the exit status of a process that dies of an uncaught exception
UncaughtExit(e) ==
    CASE e = "KeyboardInterrupt" -> 130
      [] e = "SystemExit" -> 1
      [] OTHER -> 1

\* a variant of main's except clauses that exit without calling unmount_all
MainHandler_ExitOnly(pc, e) ==
    IF pc = "try" /\ e \in {"KeyboardInterrupt", "Exception"} THEN "handler_exit" ELSE "none"

\* main's except clauses, lines 737-745: where control goes when exception e
\* reaches main at pc; "none" when main does not catch it
MainHandler(pc, e) ==
    CASE pc = "try" /\ e = "KeyboardInterrupt" -> "except_ki"
      [] pc = "try" /\ e = "Exception" -> "except_exc"
      [] OTHER -> "none"

\* the try blocks of the program: where control goes when exception e is raised
\* in (or reaches) frame f; "none" when f does not catch it.
\*   is_mounted, lines 124-143: two nested bare excepts
\*   unmount_all, lines 204-216: a bare except around the partition sweep
\*   show_device_info, lines 642-657: two bare excepts
\*   main, lines 707-745: except KeyboardInterrupt, except Exception
Handler(f, e) ==
    CASE f.fn = "is_mounted" /\ f.pc = "mountpoint" -> "grep"
      [] f.fn = "is_mounted" /\ f.pc = "grep" -> "return_false"
      [] f.fn = "unmount_all" /\ f.pc \in {"lsblk", "umount_part"} -> "sweep"
      [] f.fn = "show_device_info" /\ f.pc = "entry" -> "lsblk"
      [] f.fn = "show_device_info" /\ f.pc = "lsblk" -> "return"
      [] f.fn = "main" -> MainHandler(f.pc, e)
      [] OTHER -> "none"

RECURSIVE Unwind(_, _, _)
\* raise e with call stack stk: unwind to the nearest frame that catches it
Unwind(stk, r, e) ==
    IF stk = <<>>
    THEN [stack |-> <<>>, ret |-> "None", exit |-> UncaughtExit(e)]
    ELSE LET f == stk[Len(stk)]
             h == Handler(f, e)
         IN  CASE h = "none" -> Unwind(Pop(stk), r, e)
               [] h = "return_false" -> [stack |-> Pop(stk), ret |-> "False", exit |-> Running]
               [] h = "return" -> [stack |-> Pop(stk), ret |-> "None", exit |-> Running]
               [] OTHER -> [stack |-> WithTop(stk, h, f.i), ret |-> "None", exit |-> Running]

Goto(pc) == stack' = WithTop(stack, pc, Top.i) /\ UNCHANGED <<ret, exitCode, sweepRaised>>

GotoI(pc, i) == stack' = WithTop(stack, pc, i) /\ UNCHANGED <<ret, exitCode, sweepRaised>>

\* a call: the caller continues at pc when it returns; no value is pending
Call(pc, i, f) == stack' = Append(WithTop(stack, pc, i), f) /\ ret' = "None" /\ UNCHANGED <<exitCode, sweepRaised>>

CallFn(pc, fn, arg) == Call(pc, Top.i, Frame(fn, "entry", arg, 0))

\* continue at pc with the value v of the command just run
Continue(pc, i, v) == stack' = WithTop(stack, pc, i) /\ ret' = v /\ UNCHANGED <<exitCode, sweepRaised>>

\* a variant of the stages that mount without clearing the mount point first
ClearFirst_Skipped(pc, t) ==
    stack' = WithTop(stack, pc, Top.i) /\ UNCHANGED <<ret, exitCode, sweepRaised>>

\* force_unmount(t) ahead of a mount onto t, lines 330, 370, 378, 419, 472,
\* 491, 521; control comes back at pc
ClearFirst(pc, t) == CallFn(pc, "force_unmount", t)

\* a variant of the stages that return without unmounting what they mounted
Release_Skipped(pc, t) ==
    stack' = WithTop(stack, pc, Top.i) /\ UNCHANGED <<ret, exitCode, sweepRaised>>

\* force_unmount(t) when a stage is done with t, lines 357, 383, 406, 407, 460,
\* 507, 511, 575; control comes back at pc
Release(pc, t) == CallFn(pc, "force_unmount", t)

Return(v) == stack' = Pop(stack) /\ ret' = v /\ UNCHANGED <<exitCode, sweepRaised>>

\* the frames of stk that the frames of rest, a prefix of it, no longer hold
Left(stk, rest) == {stk[k] : k \in (Len(rest) + 1)..Len(stk)}

Throw(e) ==
    LET u == Unwind(stack, ret, e)
    IN  /\ stack' = u.stack /\ ret' = u.ret /\ exitCode' = u.exit
        /\ sweepRaised' = (sweepRaised \/ (e # "KeyboardInterrupt"
                                            /\ \E f \in Left(stack, u.stack) : f.fn = "unmount_all"))

Exit(code) == stack' = <<>> /\ exitCode' = code /\ ret' = "None" /\ UNCHANGED sweepRaised

\* the pipeline window: from the start of Unmount-All to the end of Final-Cleanup
InPipeline == stack # <<>> /\ stack[1].pc = "try" /\ stages # <<>>

\* the classes of failure, from the slightest to the gravest:
\*   advisory            one of the commands the claims call advisory did not
\*                       succeed: a subvolume create, a bootloader install
\*   other               any other operation did not succeed
\*   stage_required      a required command of Copy-Image-Contents or
\*                       Configure-Persistence did not succeed
\*   partition_required  a required command of Create-Partitions did not succeed
\*   interrupt           a KeyboardInterrupt was delivered inside the pipeline
FailureClasses == <<"none", "advisory", "other", "stage_required", "partition_required", "interrupt">>

Rank(c) == CHOOSE k \in 1..Len(FailureClasses) : FailureClasses[k] = c

\* record a failure of class c ("none": no failure)
Fails(c) == worst' = IF Rank(c) > Rank(worst) THEN c ELSE worst

\* the history of one command that ended with outcome o: cls is the class
\* recorded when it did not succeed, touches says that it touches the device
Record(o, cls, touches) ==
    /\ Fails(IF o = "ok" THEN "none"
             ELSE IF o = "sigint" /\ InPipeline THEN "interrupt"
             ELSE cls)
    /\ touched' = (touched \/ touches)

\* one run_cmd: the process ends with outcome o, control continues at pc unless
\* run_cmd raised
Exec(o, r, pc, i) ==
    IF r.raise # "none"
    THEN Throw(r.raise)
    ELSE stack' = WithTop(stack, pc, i) /\ ret' = r.val /\ UNCHANGED <<exitCode, sweepRaised>>

(***************************************************************************)
(* The mount manager.                                                      *)
(***************************************************************************)
\* is_mounted(path), lines 122-143: ask mountpoint; if that raises, scan the
\* mount table; if that raises too, answer False.  A query that runs answers
\* the truth.
Queries == {"answers", "timeout", "oserror", "sigint"}

QueryRaises(o) == IF o = "sigint" THEN "KeyboardInterrupt" ELSE "Exception"

is_mounted ==
    /\ stack # <<>> /\ Top.fn = "is_mounted"
    /\ UNCHANGED <<cleanSweeps, guarded, sizes, plan, probe, trail>>
    /\ \E o \in Queries :
          /\ IF o = "answers"
             THEN Return(IF Top.arg \in mounted THEN "True" ELSE "False")
             ELSE Throw(QueryRaises(o))
          /\ ladder' = IF o = "answers"
                       THEN Append(ladder, IF Top.arg \in mounted THEN "mounted" ELSE "clear")
                       ELSE IF Top.pc = "grep" THEN Append(ladder, "clear")
                       ELSE ladder
          /\ Fails(IF o = "answers" THEN "none"
                   ELSE IF o = "sigint" /\ InPipeline THEN "interrupt"
                   ELSE "other")
    /\ UNCHANGED <<input, world, stages, touched, mountSinceSweep, errorSweep>>

\* the effect of an unmount command that ended with outcome o: it detaches
\* the targets gone when it succeeds, and nothing otherwise
Unmounts(o, gone) == mounted' = IF o = "ok" THEN mounted \ gone ELSE mounted

\* a variant of line 158 that kills the processes on every attempt
Escalates_Always(attempt) == attempt >= 0

\* line 158: the attempts that kill the processes holding the mount first
Escalates(attempt) == attempt > 0

\* a variant of line 171 that takes every attempt after the first for the last
LastAttempt_Early(attempt) == attempt >= 1

\* line 171: the attempt that ends with the lazy unmount
LastAttempt(attempt) == attempt = max_attempts - 1

\* a variant of lines 177-181 that answers True whatever the final query says
Verdict_True(still) == "True"

\* lines 177-181: what force_unmount returns after the final query; still: the
\* query reported the path mounted
Verdict(still) == IF still THEN "False" ELSE "True"

\* one command of force_unmount that ended with outcome o: the ladder takes it
\* unless the call is left by an exception
Issued(o, cmd) ==
    ladder' = IF run_cmd(o, FALSE, FALSE, FALSE, TRUE).raise # "none"
              THEN <<>> ELSE Append(ladder, cmd)

\* force_unmount(path, max_attempts), lines 146-181; the frame's i is "attempt"
force_unmount ==
    /\ stack # <<>> /\ Top.fn = "force_unmount"
    /\ UNCHANGED <<cleanSweeps, guarded, sizes, plan, probe>>
    /\ trail' = IF Top.pc = "entry"
                THEN Append(trail, [op |-> "force_unmount", at |-> Top.arg, ok |-> TRUE])
                ELSE trail
    /\ LET path == Top.arg
           attempt == Top.i
           query(pc, i) == Call(pc, i, Frame("is_mounted", "mountpoint", path, 0))
           \* the loop's next round, or the final check after its last
           loop(i) == IF i < max_attempts THEN query("checked", i) ELSE query("decided", i)
       IN
       \/ /\ Top.pc = "entry"                       \* lines 148-152
          /\ IF path \notin exists THEN Return("True") ELSE query("checked", 0)
          /\ ladder' = <<>>
          /\ UNCHANGED <<input, world, hist>>
       \/ /\ Top.pc = "checked" /\ ~Truthy(ret)     \* line 153
          /\ Return("True")
          /\ ladder' = <<>>
          /\ UNCHANGED <<input, world, hist>>
       \/ /\ Top.pc = "checked" /\ Truthy(ret) /\ Escalates(attempt)     \* line 159
          /\ \E o \in OutcomesOf(TRUE) :
                /\ Exec(o, run_cmd(o, FALSE, FALSE, FALSE, TRUE), "umount", attempt)
                /\ Record(o, "other", FALSE)
                /\ Issued(o, "fuser")
          /\ UNCHANGED <<input, world, stages, mountSinceSweep, errorSweep>>
       \/ /\ \/ Top.pc = "checked" /\ Truthy(ret) /\ ~Escalates(attempt)
             \/ Top.pc = "umount"
          /\ \E o \in OutcomesOf(TRUE) :           \* lines 163-166
                /\ IF run_cmd(o, FALSE, FALSE, FALSE, TRUE).raise # "none"
                   THEN Throw(run_cmd(o, FALSE, FALSE, FALSE, TRUE).raise)
                   ELSE query("unmounted", attempt)
                /\ Record(o, "other", TRUE)
                /\ Unmounts(o, {path})
                /\ Issued(o, "umount")
          /\ UNCHANGED <<input, exists, stages, mountSinceSweep, errorSweep>>
       \/ /\ Top.pc = "unmounted" /\ ~Truthy(ret)   \* lines 166-168
          /\ Return("True")
          /\ ladder' = <<>>
          /\ UNCHANGED <<input, world, hist>>
       \/ /\ Top.pc = "unmounted" /\ Truthy(ret) /\ ~LastAttempt(attempt)
          /\ loop(attempt + 1)                      \* next attempt, line 152
          /\ UNCHANGED <<input, world, hist, ladder>>
       \/ /\ Top.pc = "unmounted" /\ Truthy(ret) /\ LastAttempt(attempt)
          /\ \E o \in OutcomesOf(TRUE) :           \* lines 171-177
                /\ IF run_cmd(o, FALSE, FALSE, FALSE, TRUE).raise # "none"
                   THEN Throw(run_cmd(o, FALSE, FALSE, FALSE, TRUE).raise)
                   ELSE loop(attempt + 1)
                /\ Record(o, "other", TRUE)
                /\ Unmounts(o, {path})
                /\ Issued(o, "lazy")
          /\ UNCHANGED <<input, exists, stages, mountSinceSweep, errorSweep>>
       \/ /\ Top.pc = "decided"                     \* lines 177-181
          /\ Return(Verdict(Truthy(ret)))
          /\ ladder' = <<>>
          /\ UNCHANGED <<input, world, hist>>

\* what lsblk can list under the device: no partition, the one partition of a
\* stick as sold, or the three partitions of the layout
Listings == {{}, {1}, {1, 2, 3}}

\* the first index k >= i of all_mounts whose directory exists, or one past the end
NextExisting(i) ==
    LET ks == {k \in 1..Len(all_mounts) : k >= i /\ all_mounts[k] \in exists}
    IN  IF ks = {} THEN Len(all_mounts) + 1 ELSE CHOOSE k \in ks : \A j \in ks : k <= j

\* the first partition numbered k >= i among those lsblk listed, or 0
NextPartition(i) ==
    LET ks == {k \in Top.seen : k >= i}
    IN  IF ks = {} THEN 0 ELSE CHOOSE k \in ks : \A j \in ks : k <= j

\* unmount_all(device), lines 184-222
unmount_all ==
    /\ stack # <<>> /\ Top.fn = "unmount_all"
    /\ UNCHANGED audit
    /\ \/ /\ Top.pc = "entry"                       \* lines 192-194, the fuser loop
          /\ LET k == NextExisting(Top.i) IN
             IF k > Len(all_mounts)
             THEN GotoI("unmount", 1) /\ UNCHANGED hist
             ELSE \E o \in OutcomesOf(TRUE) :
                    /\ Exec(o, run_cmd(o, FALSE, FALSE, FALSE, TRUE), "entry", k + 1)
                    /\ Record(o, "other", FALSE)
                    /\ UNCHANGED <<stages, mountSinceSweep, errorSweep>>
          /\ UNCHANGED <<input, world>>
       \/ /\ Top.pc = "unmount"                     \* lines 199-201
          /\ LET k == NextExisting(Top.i) IN
             IF k > Len(all_mounts)
             THEN GotoI("lsblk", 0)
             ELSE Call("unmount", k + 1, Frame("force_unmount", "entry", all_mounts[k], 0))
          /\ UNCHANGED <<input, world, hist>>
       \/ /\ Top.pc = "lsblk"                       \* lines 205-209
          /\ \E o \in OutcomesOf(TRUE), listed \in Listings :
                LET r == run_cmd(o, listed # {}, TRUE, TRUE, TRUE) IN
                /\ o # "ok" => listed = {}
                /\ IF r.raise # "none"
                   THEN Throw(r.raise)
                   ELSE /\ stack' = [stack EXCEPT ![Len(stack)] =
                                        [@ EXCEPT !.pc = IF Truthy(r.val) THEN "umount_part" ELSE "sweep",
                                                  !.i = 1, !.seen = listed]]
                        /\ ret' = r.val
                        /\ UNCHANGED <<exitCode, sweepRaised>>
                /\ Record(o, "other", FALSE)
          /\ UNCHANGED <<input, world, stages, mountSinceSweep, errorSweep>>
       \/ /\ Top.pc = "umount_part"                 \* lines 210-214
          /\ LET k == NextPartition(Top.i) IN
             IF k = 0
             THEN GotoI("sweep", 0) /\ UNCHANGED <<mounted, hist>>
             ELSE \E o \in OutcomesOf(TRUE) :
                    /\ Exec(o, run_cmd(o, FALSE, FALSE, FALSE, TRUE), "umount_part", k + 1)
                    /\ Record(o, "other", TRUE)
                    /\ Unmounts(o, {t \in MountTargets : Backing(t) = k})
                    /\ UNCHANGED <<stages, mountSinceSweep, errorSweep>>
          /\ UNCHANGED <<input, exists>>
       \/ /\ Top.pc = "sweep"                       \* lines 219-222
          /\ \E o \in OutcomesOf(TRUE) :
                LET r == run_cmd(o, FALSE, FALSE, FALSE, TRUE) IN
                /\ IF r.raise # "none" THEN Throw(r.raise) ELSE Return("None")
                /\ Record(o, "other", TRUE)
                /\ Unmounts(o, {t \in MountTargets : Backing(t) # 0})
                /\ mountSinceSweep' = (mountSinceSweep /\ r.raise # "none")
                /\ errorSweep' = (errorSweep \/ (r.raise = "none" /\ stack[1].pc = "handler_exit"))
          /\ UNCHANGED <<input, exists, stages>>

(***************************************************************************)
(* The partition planner.                                                  *)
(***************************************************************************)
\* wait_for_partitions' default timeout: the number of polls
wait_timeout == 15

Partitions == {1, 2, 3}

\* the commands of create_partitions, lines 272-317, in order, with run_cmd's
\* flags; part: the partition a defensive umount names
PartitionCommands == <<
    [op |-> "wipefs",   check |-> TRUE,  ignore_error |-> TRUE,  part |-> 0],
    [op |-> "dd",       check |-> TRUE,  ignore_error |-> TRUE,  part |-> 0],
    [op |-> "mklabel",  check |-> TRUE,  ignore_error |-> FALSE, part |-> 0],
    [op |-> "mkpart",   check |-> TRUE,  ignore_error |-> FALSE, part |-> 1],
    [op |-> "set",      check |-> TRUE,  ignore_error |-> FALSE, part |-> 1],
    [op |-> "mkpart",   check |-> TRUE,  ignore_error |-> FALSE, part |-> 2],
    [op |-> "set",      check |-> TRUE,  ignore_error |-> FALSE, part |-> 2],
    [op |-> "mkpart",   check |-> TRUE,  ignore_error |-> FALSE, part |-> 3],
    [op |-> "wait_for_partitions", check |-> TRUE, ignore_error |-> FALSE, part |-> 0],
    [op |-> "umount",   check |-> FALSE, ignore_error |-> TRUE,  part |-> 1],
    [op |-> "mkfs",     check |-> TRUE,  ignore_error |-> FALSE, part |-> 1],
    [op |-> "umount",   check |-> FALSE, ignore_error |-> TRUE,  part |-> 2],
    [op |-> "mkfs",     check |-> TRUE,  ignore_error |-> FALSE, part |-> 2],
    [op |-> "umount",   check |-> FALSE, ignore_error |-> TRUE,  part |-> 3],
    [op |-> "mkfs",     check |-> TRUE,  ignore_error |-> FALSE, part |-> 3] >>

\* a variant of line 253 that polls until the partitions appear
Polls_Forever(i) == i >= 0

\* line 253, for i in range(timeout): the loop goes on to round i
Polls(i) == i < wait_timeout

\* wait_for_partitions(device), lines 244-263; the frame's i is the loop index,
\* its seen the partition nodes its last os.path.exists tests found (nodes
\* appear, none disappears)
wait_for_partitions ==
    /\ stack # <<>> /\ Top.fn = "wait_for_partitions"
    /\ UNCHANGED audit
    /\ LET next(t, i) == [t EXCEPT !.i = i,
                                   !.pc = IF Polls(i) THEN "poll" ELSE "timed_out"]
       IN
       \/ /\ Top.pc \in {"entry", "blockdev"}        \* lines 248-249
          /\ \E o \in OutcomesOf(TRUE) :
                /\ Exec(o, run_cmd(o, FALSE, TRUE, FALSE, TRUE),
                        IF Top.pc = "entry" THEN "blockdev" ELSE "poll", 0)
                /\ Record(o, "other", TRUE)
          /\ UNCHANGED <<input, world, stages, mountSinceSweep, errorSweep>>
       \/ /\ Top.pc = "poll"                         \* lines 253-258
          /\ \E S \in SUBSET Partitions :
                /\ Top.seen \subseteq S
                /\ stack' = [stack EXCEPT ![Len(stack)] =
                                 IF S = Partitions
                                 THEN [@ EXCEPT !.pc = "detected", !.seen = S]
                                 ELSE IF Top.i % 3 = 0
                                 THEN [@ EXCEPT !.pc = "probe", !.seen = S]
                                 ELSE next([@ EXCEPT !.seen = S], Top.i + 1)]
                /\ UNCHANGED <<ret, exitCode, sweepRaised>>
          /\ UNCHANGED <<input, world, hist>>
       \/ /\ Top.pc = "detected"                     \* lines 255-257
          /\ Return("True")
          /\ UNCHANGED <<input, world, hist>>
       \/ /\ Top.pc = "probe"                        \* lines 259-260
          /\ \E o \in OutcomesOf(TRUE) :
                LET r == run_cmd(o, FALSE, TRUE, FALSE, TRUE) IN
                /\ IF r.raise # "none"
                   THEN Throw(r.raise)
                   ELSE /\ stack' = [stack EXCEPT ![Len(stack)] = next(@, Top.i + 1)]
                        /\ ret' = r.val
                        /\ UNCHANGED <<exitCode, sweepRaised>>
                /\ Record(o, "other", TRUE)
          /\ UNCHANGED <<input, world, stages, mountSinceSweep, errorSweep>>
       \/ /\ Top.pc = "timed_out"                    \* lines 262-263, the tests
          /\ \E S \in SUBSET Partitions :
                /\ Top.seen \subseteq S
                /\ stack' = [stack EXCEPT ![Len(stack)] =
                                 [@ EXCEPT !.pc = "answer", !.seen = S]]
                /\ UNCHANGED <<ret, exitCode, sweepRaised>>
          /\ UNCHANGED <<input, world, hist>>
       \/ /\ Top.pc = "answer"                       \* line 263, the return
          /\ Return(IF {1, 2} \subseteq Top.seen THEN "True" ELSE "False")
          /\ UNCHANGED <<input, world, hist>>

\* a variant of line 287 that leaves one MiB between the boot partition and
\* the persistence partition
boot_end_Gap(sz) == sz.esp + (sz.boot * 1024) + 1

\* line 287: boot_end = ESP_SIZE_MB + (BOOT_SIZE_GB * 1024)
boot_end(sz) == sz.esp + (sz.boot * 1024)

\* a variant of lines 283-289 whose ESP spans ESP_SIZE_MB from where it starts
mkpart_SizedEsp(sz, part) ==
    CASE part = 1 -> [start |-> 1, end |-> 1 + sz.esp, unit |-> "MiB"]
      [] part = 2 -> [start |-> 1 + sz.esp, end |-> 1 + boot_end(sz), unit |-> "MiB"]
      [] part = 3 -> [start |-> 1 + boot_end(sz), end |-> 100, unit |-> "%"]

\* what the three parted mkpart commands ask for, lines 283, 289, 294: the
\* start in MiB, and the end in MiB or in percent of the device
mkpart(sz, part) ==
    CASE part = 1 -> [start |-> 1, end |-> sz.esp, unit |-> "MiB"]
      [] part = 2 -> [start |-> sz.esp, end |-> boot_end(sz), unit |-> "MiB"]
      [] part = 3 -> [start |-> boot_end(sz), end |-> 100, unit |-> "%"]

\* the class recorded when a command of create_partitions does not succeed
PartitionClass(c) == IF c.ignore_error THEN "other" ELSE "partition_required"

\* create_partitions(device), lines 266-320: every command is issued in turn and
\* no result is looked at; the frame's i is the number of commands issued
create_partitions ==
    /\ stack # <<>> /\ Top.fn = "create_partitions"
    /\ UNCHANGED <<ladder, cleanSweeps, guarded, sizes, probe, trail>>
    /\ LET c == PartitionCommands[Top.i + 1]
           last == Top.i + 1 = Len(PartitionCommands)
       IN
       \/ /\ c.op = "wait_for_partitions"            \* lines 296-297
          /\ Call("entry", Top.i + 1, Frame("wait_for_partitions", "entry", "", 0))
          /\ UNCHANGED <<input, world, hist, plan>>
       \/ /\ c.op # "wait_for_partitions"
          /\ \E o \in OutcomesOf(TRUE) :
                LET r == run_cmd(o, FALSE, c.check, FALSE, c.ignore_error) IN
                /\ IF r.raise # "none" THEN Throw(r.raise)
                   ELSE IF last THEN Return("None")
                   ELSE Continue("entry", Top.i + 1, r.val)
                /\ Record(o, PartitionClass(c), TRUE)
                /\ Unmounts(IF c.op = "umount" THEN o ELSE "none",
                            {t \in MountTargets : Backing(t) = c.part})
          /\ plan' = IF c.op = "mkpart" THEN Append(plan, mkpart(sizes, c.part)) ELSE plan
          /\ UNCHANGED <<input, exists, stages, mountSinceSweep, errorSweep>>

(***************************************************************************)
(* The stages that mount.                                                  *)
(***************************************************************************)
\* prepare_mount_points(), lines 225-232: the missing directories are made, or
\* making them fails and is reported; made: whether it worked
Prepared(made) ==
    /\ exists' = IF made THEN exists \cup prepared_mounts ELSE exists
    /\ made \/ ~(prepared_mounts \subseteq exists)

\* a mount command onto target t that ended with outcome o: it mounts t when it
\* succeeds, which takes the directory t
Mounts(o, t) ==
    /\ o = "ok" => t \in exists
    /\ mounted' = IF o = "ok" THEN mounted \cup {t} ELSE mounted
    /\ mountSinceSweep' = TRUE
    /\ cleanSweeps' = 0
    /\ trail' = Append(trail, [op |-> "mount", at |-> t, ok |-> o = "ok"])

\* subprocess.run("sync", timeout=SYNC_TIMEOUT), lines 402, 457, 724: no check
\* of the exit status; a timeout or a spawn error is raised
SyncRaises(o) ==
    CASE o \in {"ok", "nonzero"} -> "none"
      [] o = "sigint" -> "KeyboardInterrupt"
      [] OTHER -> "Exception"

subvolumes == <<"@rootfs", "@home", "@snapshots", "@work">>

\* setup_btrfs_subvolumes(device), lines 323-358
setup_btrfs_subvolumes ==
    /\ stack # <<>> /\ Top.fn = "setup_btrfs_subvolumes"
    /\ UNCHANGED auditElse
    /\ \/ /\ Top.pc = "entry"                       \* lines 329-330
          /\ \E made \in BOOLEAN :
                /\ Prepared(made)
                /\ Fails(IF made THEN "none" ELSE "other")
          /\ ClearFirst("mount", USB_PERSIST)
          /\ UNCHANGED <<input, mounted, stages, touched, mountSinceSweep, errorSweep, sinceMount>>
       \/ /\ Top.pc = "mount"                       \* lines 335-337
          /\ \E o \in OutcomesOf(TRUE) :
                LET r == run_cmd(o, FALSE, TRUE, FALSE, FALSE) IN
                /\ IF r.raise # "none" THEN Throw(r.raise)
                   ELSE IF ~Truthy(r.val) THEN Return("False")
                   ELSE Continue("subvolume", 1, r.val)
                /\ Record(o, "other", TRUE)
                /\ Mounts(o, USB_PERSIST)
          /\ UNCHANGED <<input, exists, stages, errorSweep>>
       \/ /\ Top.pc = "subvolume"                   \* lines 343-357
          /\ \E o \in OutcomesOf(TRUE) :
                LET r == run_cmd(o, FALSE, TRUE, FALSE, TRUE) IN
                /\ IF r.raise # "none" THEN Throw(r.raise)
                   ELSE IF Top.i < Len(subvolumes) THEN Continue("subvolume", Top.i + 1, r.val)
                   ELSE Release("done", USB_PERSIST)
                /\ Record(o, "advisory", TRUE)
          /\ UNCHANGED <<input, world, stages, mountSinceSweep, errorSweep, sinceMount>>
       \/ /\ Top.pc = "done"                        \* line 358
          /\ Return("True")
          /\ UNCHANGED <<input, world, hist, sinceMount>>

\* copy_iso_contents(iso_path, device), lines 361-410
copy_iso_contents ==
    /\ stack # <<>> /\ Top.fn = "copy_iso_contents"
    /\ UNCHANGED auditElse
    /\ \/ /\ Top.pc = "entry"                       \* lines 365-370
          /\ \E made \in BOOLEAN :
                /\ Prepared(made)
                /\ Fails(IF made THEN "none" ELSE "other")
          /\ ClearFirst("mount_iso", ISO_MOUNT)
          /\ UNCHANGED <<input, mounted, stages, touched, mountSinceSweep, errorSweep, sinceMount>>
       \/ /\ Top.pc = "mount_iso"                   \* lines 372-378
          /\ \E o \in OutcomesOf(TRUE) :
                LET r == run_cmd(o, FALSE, TRUE, FALSE, FALSE) IN
                /\ IF r.raise # "none" THEN Throw(r.raise)
                   ELSE IF ~Truthy(r.val) THEN Return("False")
                   ELSE ClearFirst("mount_boot", USB_BOOT)
                /\ Record(o, "stage_required", TRUE)
                /\ Mounts(o, ISO_MOUNT)
          /\ UNCHANGED <<input, exists, stages, errorSweep>>
       \/ /\ Top.pc = "mount_boot"                  \* lines 381-384
          /\ \E o \in OutcomesOf(TRUE) :
                LET r == run_cmd(o, FALSE, TRUE, FALSE, FALSE) IN
                /\ IF r.raise # "none" THEN Throw(r.raise)
                   ELSE IF ~Truthy(r.val) THEN Release("failed", ISO_MOUNT)
                   ELSE Continue("rsync", 0, r.val)
                /\ Record(o, "stage_required", TRUE)
                /\ Mounts(o, USB_BOOT)
          /\ UNCHANGED <<input, exists, stages, errorSweep>>
       \/ /\ Top.pc = "failed"                      \* line 384
          /\ Return("False")
          /\ UNCHANGED <<input, world, hist, sinceMount>>
       \/ /\ Top.pc = "rsync"                       \* lines 390-398: no timeout, no check
          /\ \E o \in OutcomesOf(FALSE) :
                /\ Exec(o, run_cmd(o, TRUE, FALSE, FALSE, FALSE), "sync", 0)
                /\ Record(o, "stage_required", TRUE)
          /\ UNCHANGED <<input, world, stages, mountSinceSweep, errorSweep, sinceMount>>
       \/ /\ Top.pc = "sync"                        \* lines 402-406
          /\ \E o \in OutcomesOf(TRUE) :
                /\ IF SyncRaises(o) # "none" THEN Throw(SyncRaises(o))
                   ELSE Release("unmount_iso", USB_BOOT)
                /\ Record(o, "other", FALSE)
          /\ UNCHANGED <<input, world, stages, mountSinceSweep, errorSweep, sinceMount>>
       \/ /\ Top.pc = "unmount_iso"                 \* line 407
          /\ Release("done", ISO_MOUNT)
          /\ UNCHANGED <<input, world, hist, sinceMount>>
       \/ /\ Top.pc = "done"                        \* line 410
          /\ Return("True")
          /\ UNCHANGED <<input, world, hist, sinceMount>>

\* configure_persistence(device), lines 413-463; the writes of persistence.conf
\* and grub.cfg (lines 428-455) catch their own errors and change no control
configure_persistence ==
    /\ stack # <<>> /\ Top.fn = "configure_persistence"
    /\ UNCHANGED auditElse
    /\ \/ /\ Top.pc = "entry"                       \* line 419
          /\ ClearFirst("mount", USB_BOOT)
          /\ UNCHANGED <<input, world, hist, sinceMount>>
       \/ /\ Top.pc = "mount"                       \* lines 422-424
          /\ \E o \in OutcomesOf(TRUE) :
                LET r == run_cmd(o, FALSE, TRUE, FALSE, FALSE) IN
                /\ IF r.raise # "none" THEN Throw(r.raise)
                   ELSE IF ~Truthy(r.val) THEN Return("False")
                   ELSE Continue("sync", 0, r.val)
                /\ Record(o, "stage_required", TRUE)
                /\ Mounts(o, USB_BOOT)
          /\ UNCHANGED <<input, exists, stages, errorSweep>>
       \/ /\ Top.pc = "sync"                        \* lines 457-460
          /\ \E o \in OutcomesOf(TRUE) :
                /\ IF SyncRaises(o) # "none" THEN Throw(SyncRaises(o))
                   ELSE Release("done", USB_BOOT)
                /\ Record(o, "other", FALSE)
          /\ UNCHANGED <<input, world, stages, mountSinceSweep, errorSweep, sinceMount>>
       \/ /\ Top.pc = "done"                        \* line 463
          /\ Return("True")
          /\ UNCHANGED <<input, world, hist, sinceMount>>

\* install_bootloader(device), lines 466-514
install_bootloader ==
    /\ stack # <<>> /\ Top.fn = "install_bootloader"
    /\ UNCHANGED auditElse
    /\ \/ /\ Top.pc = "entry"                       \* line 472
          /\ ClearFirst("mount", USB_BOOT)
          /\ UNCHANGED <<input, world, hist, sinceMount>>
       \/ /\ Top.pc = "mount"                       \* lines 475-477
          /\ \E o \in OutcomesOf(TRUE) :
                LET r == run_cmd(o, FALSE, TRUE, FALSE, FALSE) IN
                /\ IF r.raise # "none" THEN Throw(r.raise)
                   ELSE IF ~Truthy(r.val) THEN Return("False")
                   ELSE Continue("bios", 0, r.val)
                /\ Record(o, "other", TRUE)
                /\ Mounts(o, USB_BOOT)
          /\ UNCHANGED <<input, exists, stages, errorSweep>>
       \/ /\ Top.pc = "bios"                        \* lines 481-487
          /\ \E o \in OutcomesOf(TRUE) :
                /\ Exec(o, run_cmd(o, FALSE, FALSE, FALSE, TRUE), "prepare", 0)
                /\ Record(o, "advisory", TRUE)
          /\ UNCHANGED <<input, world, stages, mountSinceSweep, errorSweep, sinceMount>>
       \/ /\ Top.pc = "prepare"                     \* lines 490-491
          /\ \E made \in BOOLEAN :
                /\ Prepared(made)
                /\ Fails(IF made THEN "none" ELSE "other")
          /\ ClearFirst("mount_esp", ESP_MOUNT)
          /\ UNCHANGED <<input, mounted, stages, touched, mountSinceSweep, errorSweep, sinceMount>>
       \/ /\ Top.pc = "mount_esp"                   \* lines 493, 508-511
          /\ \E o \in OutcomesOf(TRUE) :
                LET r == run_cmd(o, FALSE, FALSE, FALSE, TRUE) IN
                /\ IF r.raise # "none" THEN Throw(r.raise)
                   ELSE IF ~Truthy(r.val) THEN Release("done", USB_BOOT)
                   ELSE Continue("uefi", 0, r.val)
                /\ Record(o, "other", TRUE)
                /\ Mounts(o, ESP_MOUNT)
          /\ UNCHANGED <<input, exists, stages, errorSweep>>
       \/ /\ Top.pc = "uefi"                        \* lines 496-507
          /\ \E o \in OutcomesOf(TRUE) :
                LET r == run_cmd(o, FALSE, FALSE, FALSE, TRUE) IN
                /\ IF r.raise # "none" THEN Throw(r.raise)
                   ELSE Release("unmount_boot", ESP_MOUNT)
                /\ Record(o, "advisory", TRUE)
          /\ UNCHANGED <<input, world, stages, mountSinceSweep, errorSweep, sinceMount>>
       \/ /\ Top.pc = "unmount_boot"                \* line 511
          /\ Release("done", USB_BOOT)
          /\ UNCHANGED <<input, world, hist, sinceMount>>
       \/ /\ Top.pc = "done"                        \* line 514
          /\ Return("True")
          /\ UNCHANGED <<input, world, hist, sinceMount>>

\* create_readme(device), lines 517-575; the write of README.txt catches its own
\* errors
create_readme ==
    /\ stack # <<>> /\ Top.fn = "create_readme"
    /\ UNCHANGED auditElse
    /\ \/ /\ Top.pc = "entry"                       \* line 521
          /\ ClearFirst("mount", USB_BOOT)
          /\ UNCHANGED <<input, world, hist, sinceMount>>
       \/ /\ Top.pc = "mount"                       \* lines 523-575
          /\ \E o \in OutcomesOf(TRUE) :
                LET r == run_cmd(o, FALSE, FALSE, FALSE, TRUE) IN
                /\ IF r.raise # "none" THEN Throw(r.raise)
                   ELSE IF ~Truthy(r.val) THEN Return("None")
                   ELSE Release("done", USB_BOOT)
                /\ Record(o, "other", TRUE)
                /\ Mounts(o, USB_BOOT)
          /\ UNCHANGED <<input, exists, stages, errorSweep>>
       \/ /\ Top.pc = "done"
          /\ Return("None")
          /\ UNCHANGED <<input, world, hist, sinceMount>>

(***************************************************************************)
(* Validation, confirmation and main.                                      *)
(***************************************************************************)
\* a variant of validate_iso without the os.path.isfile test
validate_iso_Exists(kind) == kind # "absent"

\* validate_iso(iso_path), lines 619-634; kind: what the path names
validate_iso(kind) ==
    IF kind = "absent" THEN FALSE
    ELSE IF kind # "file" THEN FALSE
    ELSE TRUE

\* validate_device(device), lines 578-616; kind: what the path names, out: what
\* run_cmd returned for lsblk, mps: the mountpoints lsblk listed
validate_device(kind, out, mps) ==
    IF kind = "absent" THEN FALSE
    ELSE IF kind # "block" THEN FALSE
    ELSE IF Truthy(out) /\ mps \cap critical_mounts # {} THEN FALSE
    ELSE TRUE

\* the mountpoints lsblk lists for the device: where its partitions are mounted
DeviceMountpoints == {t \in mounted : Backing(t) # 0}

Whitespace == {" ", "\t"}

RECURSIVE lstrip(_)
lstrip(s) == IF s # <<>> /\ Head(s) \in Whitespace THEN lstrip(Tail(s)) ELSE s

RECURSIVE rstrip(_)
rstrip(s) ==
    IF s # <<>> /\ s[Len(s)] \in Whitespace THEN rstrip(SubSeq(s, 1, Len(s) - 1)) ELSE s

\* str.strip()
strip(s) == rstrip(lstrip(s))

YES == <<"Y", "E", "S">>

\* a variant of the comparison that looks at the start of the line only
Confirms_StartsWith(text) ==
    Len(strip(text)) >= Len(YES) /\ SubSeq(strip(text), 1, Len(YES)) = YES

\* line 699: input().strip() != "YES" declines
Confirms(text) == strip(text) = YES

\* the lines the model types at the prompt
Inputs == {
    YES,
    <<" ", "Y", "E", "S", "\t">>,
    <<"y", "e", "s">>,
    <<"Y", "e", "s">>,
    <<"Y", "E", "S", "!">>,
    <<"Y", " ", "E", "S">>,
    <<"N", "O">>,
    <<>> }

\* show_device_info(device), lines 637-659: two captured commands, each inside a
\* bare except
show_device_info ==
    /\ stack # <<>> /\ Top.fn = "show_device_info"
    /\ UNCHANGED audit
    /\ \E o \in OutcomesOf(TRUE) :
          LET r == run_cmd(o, TRUE, TRUE, TRUE, FALSE) IN
          /\ IF r.raise # "none" THEN Throw(r.raise)
             ELSE IF Top.pc = "entry" THEN Continue("lsblk", 0, r.val)
             ELSE Return("None")
          /\ Record(o, "other", FALSE)
    /\ UNCHANGED <<input, world, stages, mountSinceSweep, errorSweep>>

\* check_requirements(), lines 85-119
check_requirements ==
    /\ stack # <<>> /\ Top.fn = "check_requirements"
    /\ UNCHANGED audit
    /\ \/ /\ Top.pc = "entry"                       \* lines 102-108, 119
          /\ \E missing \in BOOLEAN :
                IF missing THEN Goto("apt_update") ELSE Return("None")
          /\ UNCHANGED <<input, world, hist>>
       \/ /\ Top.pc = "apt_update"                  \* line 111
          /\ \E o \in OutcomesOf(TRUE) :
                /\ Exec(o, run_cmd(o, FALSE, TRUE, FALSE, TRUE), "apt_install", 0)
                /\ Record(o, "other", FALSE)
          /\ UNCHANGED <<input, world, stages, mountSinceSweep, errorSweep>>
       \/ /\ Top.pc = "apt_install"                 \* line 112
          /\ \E o \in OutcomesOf(TRUE) :
                /\ Exec(o, run_cmd(o, FALSE, TRUE, FALSE, FALSE), "which", 0)
                /\ Record(o, "other", FALSE)
          /\ UNCHANGED <<input, world, stages, mountSinceSweep, errorSweep>>
       \/ /\ Top.pc = "which"                       \* lines 114-117
          /\ \E btrfs \in BOOLEAN :
                /\ IF btrfs THEN Return("None") ELSE Throw("SystemExit")
                /\ Fails(IF btrfs THEN "none" ELSE "other")
          /\ UNCHANGED <<input, world, stages, touched, mountSinceSweep, errorSweep>>

\* lines 708, 721, 738, 743: an unmount_all call begins; it adds to the calls
\* begun in a row with nothing mounted, or ends the row
Sweeps == cleanSweeps' = IF mounted # {} THEN 0 ELSE IF cleanSweeps < 2 THEN cleanSweeps + 1 ELSE 2

\* main(), lines 662-745; in the try block the frame's i is the index in
\* TryBody of the next call
main ==
    /\ stack # <<>> /\ Top.fn = "main"
    /\ UNCHANGED <<ladder, sizes, plan, probe>>
    /\ guarded' = IF Top.pc = "validated" THEN DeviceMountpoints \cap critical_mounts ELSE guarded
    /\ \/ /\ Top.pc = "args"                        \* lines 669-680
          /\ IF invocation.argc # 3 THEN Exit(1) ELSE Goto("check_root")
          /\ UNCHANGED <<input, world, hist, sinceMount>>
       \/ /\ Top.pc = "check_root"                  \* lines 78-82, 684
          /\ IF invocation.euid # 0 THEN Exit(1) ELSE Goto("validate_iso")
          /\ UNCHANGED <<input, world, hist, sinceMount>>
       \/ /\ Top.pc = "validate_iso"                \* lines 686-687
          /\ IF ~validate_iso(invocation.iso) THEN Exit(1) ELSE Goto("validate_device")
          /\ UNCHANGED <<input, world, hist, sinceMount>>
       \/ /\ Top.pc = "validate_device"             \* lines 580-600: the path, then lsblk
          /\ IF ~validate_device(invocation.device, "None", {})
             THEN Exit(1) /\ UNCHANGED hist
             ELSE \E o \in OutcomesOf(TRUE) :
                    /\ Exec(o, run_cmd(o, TRUE, TRUE, TRUE, TRUE), "validated", 0)
                    /\ Record(o, "other", FALSE)
                    /\ UNCHANGED <<stages, mountSinceSweep, errorSweep>>
          /\ UNCHANGED <<input, world, sinceMount>>
       \/ /\ Top.pc = "validated"                   \* lines 602-616, 689-692
          /\ IF ~validate_device(invocation.device, ret, DeviceMountpoints) THEN Exit(1)
             ELSE Call("prompt", 0, Frame("show_device_info", "entry", "", 0))
          /\ UNCHANGED <<input, world, hist, sinceMount>>
       \/ /\ Top.pc = "prompt"                      \* lines 694-701
          /\ IF typed = EOF THEN Throw("Exception")
             ELSE IF ~Confirms(typed) THEN Exit(0)
             ELSE GotoI("try", 1)
          /\ UNCHANGED <<input, world, hist, sinceMount>>
       \/ /\ Top.pc = "try"                         \* lines 707-735
          /\ LET i == Top.i IN
             IF i > 1 /\ TryBody[i - 1].fatal /\ ~Truthy(ret)
             THEN Throw("Exception") /\ UNCHANGED <<hist, sinceMount>>   \* lines 713-717
             ELSE IF i > Len(TryBody)
             THEN Exit(0) /\ UNCHANGED <<hist, sinceMount>>
             ELSE IF TryBody[i].call = "sync"
             THEN \E o \in OutcomesOf(TRUE) :                 \* line 724
                    /\ IF SyncRaises(o) # "none" THEN Throw(SyncRaises(o))
                       ELSE GotoI("try", i + 1)
                    /\ Record(o, "other", FALSE)
                    /\ UNCHANGED <<stages, mountSinceSweep, errorSweep, sinceMount>>
             ELSE /\ Call("try", i + 1, Frame(TryBody[i].call, "entry", "", 0))
                  /\ stages' = IF TryBody[i].stage = "" THEN stages
                                ELSE Append(stages, TryBody[i].stage)
                  /\ IF TryBody[i].call = "unmount_all" THEN Sweeps ELSE UNCHANGED cleanSweeps
                  /\ trail' = <<>>
                  /\ UNCHANGED <<touched, worst, mountSinceSweep, errorSweep>>
          /\ UNCHANGED <<input, world>>
       \/ /\ Top.pc \in {"except_ki", "except_exc"} \* lines 737-739, 741-744
          /\ Call("handler_exit", 0, Frame("unmount_all", "entry", "", 0))
          /\ Sweeps
          /\ trail' = <<>>
          /\ UNCHANGED <<input, world, hist>>
       \/ /\ Top.pc = "handler_exit"                \* lines 740, 745
          /\ Exit(1)
          /\ UNCHANGED <<input, world, hist, sinceMount>>

(***************************************************************************)
(* The specification.                                                      *)
(***************************************************************************)
\* what the host can look like when the program starts.
AllDirs == {all_mounts[k] : k \in 1..Len(all_mounts)}

\* mounts an earlier run or the desktop left behind: the image, the boot
\* partition, a partition the desktop mounted by itself
LeftoverTargets == {ISO_MOUNT, USB_BOOT, MEDIA}

\* a host that ran this program before and was left clean
PlainHost == [mounted |-> {}, exists |-> AllDirs]

\* a host that never ran it: none of the directories exists
FreshHosts == {[mounted |-> M, exists |-> {}] : M \in {{}, {MEDIA}}}

UsedHosts ==
    {[mounted |-> M, exists |-> AllDirs] :
        M \in {L \in SUBSET LeftoverTargets : Cardinality(L) <= MaxLeftover}}

\* the device named is a disk of the running system: what is mounted from it
SystemMounts == {{"/"}, {"/boot/efi", "/home"}, {"/home/user"}}

SystemHosts == {[mounted |-> M, exists |-> AllDirs] : M \in SystemMounts}

Hosts == FreshHosts \cup UsedHosts \cup SystemHosts

\* the invocation that passes every check before the prompt
Proper == [argc |-> 3, euid |-> 0, iso |-> "file", device |-> "block"]

Invocations ==
    [argc : {2, 3, 4}, euid : {0, 1000}, iso : {"absent", "directory", "file"},
     device : {"absent", "regular", "char", "block"}]

\* the state when frame f is entered on host h with invocation inv, the line
\* text waiting at the prompt, the size constants sz, and pr for a lone
\* run_cmd call
Started(f, h, text, inv, sz, pr) ==
    /\ stack = <<f>>
    /\ probe = pr
    /\ trail = <<>>
    /\ ret = "None"
    /\ exitCode = Running
    /\ sweepRaised = FALSE
    /\ ladder = <<>>
    /\ cleanSweeps = 0
    /\ guarded = {}
    /\ sizes = sz
    /\ plan = <<>>
    /\ invocation = inv
    /\ typed = text
    /\ mounted = h.mounted
    /\ exists = h.exists
    /\ stages = <<>>
    /\ touched = FALSE
    /\ worst = "none"
    /\ mountSinceSweep = FALSE
    /\ errorSweep = FALSE

\* no lone run_cmd call: the program runs from main
NoProbe == [o |-> "none", nonempty |-> FALSE, check |-> FALSE, capture |-> FALSE,
            ignore_error |-> FALSE]

\* the size constants as the program defines them
Sizes == [esp |-> ESP_SIZE_MB, boot |-> BOOT_SIZE_GB]

\* every host is tried with the proper invocation and the line YES, every line
\* with the plain host, and every invocation with the plain host
Init ==
    \E h \in Hosts, text \in Inputs \cup {EOF}, inv \in Invocations :
        /\ (text = YES /\ inv = Proper) \/ h = PlainHost
        /\ text = YES \/ inv = Proper
        /\ Started(Frame("main", "args", "", 0), h, text, inv, Sizes, NoProbe)

Next ==
    \/ main
    \/ check_requirements
    \/ show_device_info
    \/ is_mounted
    \/ force_unmount
    \/ unmount_all
    \/ wait_for_partitions
    \/ create_partitions
    \/ setup_btrfs_subvolumes
    \/ copy_iso_contents
    \/ configure_persistence
    \/ install_bootloader
    \/ create_readme

Spec == Init /\ [][Next]_vars

\* the program is one sequential process that takes its next step as long as
\* it has one: every command it waits for ends (each carries a timeout, and
\* the copy, which carries none, is taken to end)
FairSpec == Spec /\ WF_vars(Next)

\* other values the two size constants could be given
OtherSizes == [esp : {100, 512, 1024}, boot : {1, 8}]

\* the program built with other size constants, confirmed on the plain host
LayoutInit ==
    \E sz \in OtherSizes :
        Started(Frame("main", "args", "", 0), PlainHost, YES, Proper, sz, NoProbe)

LayoutSpec == LayoutInit /\ [][Next]_vars

\* one call of run_cmd(cmd, check, capture, ignore_error, timeout), lines 38-75,
\* by itself: the process ends as probe.o says
run_cmd_call ==
    /\ At("run_cmd", "entry")
    /\ LET r == run_cmd(probe.o, probe.nonempty, probe.check, probe.capture,
                        probe.ignore_error)
       IN  IF r.raise # "none" THEN Throw(r.raise) ELSE Return(r.val)
    /\ UNCHANGED <<input, world, hist, audit>>

\* the calls of run_cmd: every way the process ends with every choice of options
Probes ==
    [o : Outcomes, nonempty : BOOLEAN, check : BOOLEAN, capture : BOOLEAN,
     ignore_error : BOOLEAN]

RunnerInit ==
    \E pr \in Probes :
        Started(Frame("run_cmd", "entry", "", 0), PlainHost, YES, Proper, Sizes, pr)

RunnerNext == run_cmd_call

RunnerSpec == RunnerInit /\ [][RunnerNext]_vars

(***************************************************************************)
(* Properties.                                                             *)
(***************************************************************************)
\* the pipeline's stages in the order the specification gives them
StageOrder == <<"Unmount-All", "Create-Partitions", "Setup-Subvolumes",
                "Copy-Image-Contents", "Configure-Persistence", "Install-Bootloader",
                "Create-Readme", "Final-Cleanup">>

\* the process has exited
Exited == exitCode # Running

\* C1: in every run that passes the confirmation the stages start in exactly
\* the order Unmount-All, Create-Partitions, Setup-Subvolumes,
\* Copy-Image-Contents, Configure-Persistence, Install-Bootloader,
\* Create-Readme, Final-Cleanup: the stages started are always an initial part
\* of that order (none skipped, none twice), and a stage starts only when main
\* is the only frame on the stack, every earlier stage having returned.
C1_StagesInOrder ==
    /\ [](/\ Len(stages) <= Len(StageOrder)
          /\ \A k \in 1..Len(stages) : stages[k] = StageOrder[k])
    /\ [][stages' # stages =>
            /\ Len(stack) = 1 /\ stack[1].fn = "main"
            /\ Len(stages) < Len(StageOrder)
            /\ stages' = Append(stages, StageOrder[Len(stages) + 1])]_vars

\* a run that started all eight stages and succeeded
C1_AllStagesRan == exitCode = 0 /\ stages = StageOrder

\* C2 as the specification words it: a device-touching operation is issued only
\* if the typed line is exactly YES, and a run that read any other line ends
\* with exit code 0 and none issued.
C2_ExactToken ==
    /\ [](touched => typed = YES)
    /\ [][At("main", "prompt") /\ typed \notin {YES, EOF} => exitCode' = 0 /\ ~touched']_vars

\* C2, amended: a device-touching operation is issued only if the typed line
\* without its leading and trailing whitespace is YES; when the prompt reads
\* any other line the program exits with code 0 and has issued none.
C2_StrippedToken ==
    /\ [](touched => strip(typed) = YES)
    /\ [][At("main", "prompt") /\ typed # EOF /\ strip(typed) # YES =>
            exitCode' = 0 /\ ~touched']_vars

\* lowercase yes was typed and the program declined
C2_LowercaseDeclined == exitCode = 0 /\ ~touched /\ typed = <<"y", "e", "s">>

\* main is about to see one of the preconditions of C3 fail
PreconditionFails ==
    \/ At("main", "args") /\ invocation.argc # 3
    \/ At("main", "validate_iso") /\ invocation.iso \in {"absent", "directory"}
    \/ At("main", "validate_device") /\ ~validate_device(invocation.device, "None", {})
    \/ At("main", "validated") /\ ~validate_device(invocation.device, ret, DeviceMountpoints)

\* C3: when a precondition fails (wrong argument count, the image path absent
\* or no regular file, validate_device false), the program exits at once with
\* code 1 and has issued no mount, unmount, partition or format operation.
C3_PreconditionExit ==
    [][PreconditionFails => exitCode' = 1 /\ ~touched' /\ stages' = <<>>]_vars

\* the image path names nothing and the program exited with code 1
C3_AbsentImageExit ==
    /\ exitCode = 1 /\ ~touched
    /\ invocation.argc = 3 /\ invocation.euid = 0 /\ invocation.iso = "absent"

\* the call of index k in main's try block has returned and reported failure
\* (4: setup_btrfs_subvolumes, 5: copy_iso_contents, 6: configure_persistence,
\* 7: install_bootloader, 8: create_readme)
Reported(k) == At("main", "try") /\ Top.i = k + 1 /\ ret = "False"

\* one of the stages after Create-Partitions is running
LaterStageRuns ==
    /\ Len(stack) >= 2 /\ stack[1].pc = "try"
    /\ stack[2].fn \in {"setup_btrfs_subvolumes", "copy_iso_contents",
                        "configure_persistence", "install_bootloader", "create_readme"}

\* main is in one of its except clauses
InHandler == stack # <<>> /\ stack[1].pc \in {"except_ki", "except_exc", "handler_exit"}

\* C4 as the specification words it: when any stage after Create-Partitions
\* reports a failure outcome, main raises at once and starts no later stage.
C4_AnyStageFailureAborts ==
    [][(\E k \in 4..8 : Reported(k)) =>
          stack' # <<>> /\ stack'[1].pc = "except_exc" /\ stages' = stages]_vars

\* C4, amended: when Copy-Image-Contents or Configure-Persistence reports a
\* failure outcome, main raises at once; when an exception leaves any stage
\* after Create-Partitions it reaches one of main's except clauses; and from
\* an except clause on, no stage is started, unmount_all(device) is called,
\* and the process exits with a non-zero code.
C4_FatalStageFailureAborts ==
    [][/\ Reported(5) \/ Reported(6) =>
            stack' # <<>> /\ stack'[1].pc = "except_exc" /\ stages' = stages
       /\ LaterStageRuns /\ Len(stack') < 2 =>
            /\ stack' # <<>>
            /\ stack'[1].pc \in {"try", "except_ki", "except_exc"}
            /\ stack'[1].pc = "try" => stack' = Pop(stack)
       /\ At("main", "except_ki") \/ At("main", "except_exc") =>
            /\ Len(stack') = 2 /\ stack'[2].fn = "unmount_all"
            /\ stack'[1].pc = "handler_exit"
       /\ InHandler => /\ stages' = stages
                       /\ exitCode' # 0
                       /\ stack' # <<>> => stack'[1].pc = "handler_exit"]_vars

\* Copy-Image-Contents was the last stage started, one of its required
\* commands failed, the handler's unmount_all ran and the process exited with 1
C4_CopyFailureAborted ==
    /\ exitCode = 1 /\ errorSweep
    /\ stages = SubSeq(StageOrder, 1, 4) /\ worst = "stage_required"

\* the pipeline's mount points and every place a partition of the device is
\* mounted
DeviceTargets == {t \in MountTargets : t \in prepared_mounts \/ Backing(t) # 0}

\* C5 as the specification words it: a run that passed the confirmation and
\* ends with exit code 1 ran the unmount_all sweep after its last mount
\* operation, and at the exit none of the pipeline's mount points and no
\* partition of the device is mounted.  (Stated for the runs that started the
\* pipeline and saw no KeyboardInterrupt.)
C5_NothingMountedAtFailure ==
    exitCode = 1 /\ stages # <<>> /\ worst # "interrupt" =>
        /\ ~mountSinceSweep /\ errorSweep
        /\ mounted \cap DeviceTargets = {}

\* C5, amended: in a run that ends with exit code 1 no mount command was
\* issued after the last completed unmount_all sweep, and when a stage of the
\* pipeline had started, an unmount_all sweep of main's except clauses ran to
\* completion before the exit.  (The sweep is best effort: what its unmount
\* commands could not release stays mounted.)
C5_SweepAfterLastMount ==
    exitCode = 1 => ~mountSinceSweep /\ (stages # <<>> => errorSweep)

\* a failed run whose sweep completed and left a mount point mounted
C5_ResidueAfterSweep ==
    /\ exitCode = 1 /\ errorSweep /\ Len(stages) >= 4
    /\ mounted \cap prepared_mounts # {}

\* C6: if a required command of Copy-Image-Contents (the two mounts, the
\* copy) or of Configure-Persistence (the mount) fails, and nothing graver
\* happens, Install-Bootloader is never started, and the process exits with a
\* non-zero code, with code 1 after the handler's unmount_all.
C6_RequiredFailureAborts ==
    worst = "stage_required" =>
        /\ "Install-Bootloader" \notin {stages[k] : k \in 1..Len(stages)}
        /\ Exited => exitCode # 0
        /\ exitCode = 1 => errorSweep

\* C7: after a required command of Create-Partitions (label, partition, flag,
\* format) failed by a non-zero exit or a timeout, no later stage of the
\* pipeline, from Setup-Subvolumes on, is started.
C7_PartitionFailureHalts ==
    worst = "partition_required" =>
        "Setup-Subvolumes" \notin {stages[k] : k \in 1..Len(stages)}

\* C8: advisory failures never abort the pipeline: when a bootloader install
\* or a subvolume create failed or timed out and nothing else failed, main is
\* in none of its except clauses, and the run that exits has started every
\* stage through Final-Cleanup and exits with code 0.
C8_AdvisoryNeverAborts ==
    worst = "advisory" =>
        /\ ~InHandler
        /\ Exited => exitCode = 0 /\ stages = StageOrder

\* a run with an advisory failure only that succeeded
C8_AdvisoryFailureSucceeded == exitCode = 0 /\ worst = "advisory"

\* C9: a KeyboardInterrupt delivered between the start of Unmount-All and the
\* end of Final-Cleanup takes control to main's except KeyboardInterrupt
\* clause; once it was delivered no further stage is started; and the process
\* exits with code 1 after the clause's unmount_all.  (A second interrupt that
\* ends the clause's unmount_all, and the process with code 130, is not held
\* against the claim.)
C9_InterruptAborts ==
    /\ [](worst = "interrupt" /\ Exited =>
            exitCode \in {1, 130} /\ (exitCode = 1 => errorSweep))
    /\ [][/\ worst = "interrupt" => stages' = stages
          /\ worst # "interrupt" /\ worst' = "interrupt" =>
                stack' # <<>> /\ stack'[1].pc = "except_ki"]_vars

\* a call of unmount_all is in progress (main is its only caller)
InUnmountAll == Len(stack) >= 2 /\ stack[2].fn = "unmount_all"

\* C10: unmount_all never raises.  Whatever the outcomes (success, non-zero
\* exit, timeout, spawn error) of the commands and queries it issues, itself or
\* through force_unmount and is_mounted, and whatever is mounted, no exception
\* leaves it: every call of it comes to an end, and its frame leaves the stack
\* only by its return after the final sweep.  (A KeyboardInterrupt is none of
\* those outcomes; it is the one thing that takes the frame away otherwise.)
C10_UnmountAllNeverRaises ==
    /\ [](~sweepRaised)
    /\ InUnmountAll ~> ~InUnmountAll
    /\ [][(\E k \in 1..Len(stack) : stack[k].fn = "unmount_all" /\ Len(stack') < k) =>
            \/ Top.fn = "unmount_all" /\ Top.pc = "sweep" /\ stack' = Pop(stack)
            \/ exitCode' = 130
            \/ stack' # <<>> /\ stack'[1].pc = "except_ki"]_vars

\* Final-Cleanup's unmount_all has returned to main although commands failed
\* and something stayed mounted
C10_ReturnedDespiteFailures ==
    /\ At("main", "try") /\ Top.i = 10
    /\ worst = "other" /\ mounted # {}

\* the commands of the ladder, without the answers of the queries
Commands(l) == SelectSeq(l, LAMBDA e : e \in {"fuser", "umount", "lazy"})

\* the number of entries of l that are e
Count(l, e) == Cardinality({k \in 1..Len(l) : l[k] = e})

\* a force_unmount call is in progress and it, not a query of it, is running
InForceUnmount == stack # <<>> /\ Top.fn = "force_unmount"

\* the step returns from the frame on top
Returns == stack' = Pop(stack) /\ exitCode' = Running

\* C11: within one call of force_unmount the first command is a plain unmount
\* with no process-kill before it, every later plain unmount comes right after
\* a process-kill, every process-kill comes right after the plain unmount of
\* the attempt before, and at most three plain unmounts (max_attempts) are
\* issued.
C11_EscalationLadder ==
    LET cmds == Commands(ladder) IN
    /\ cmds # <<>> => cmds[1] = "umount"
    /\ \A k \in 2..Len(cmds) : cmds[k] = "umount" => cmds[k - 1] = "fuser"
    /\ \A k \in 2..Len(cmds) : cmds[k] = "fuser" => cmds[k - 1] = "umount"
    /\ Count(cmds, "umount") <= 3

\* C11 happens: a call went through all three attempts
C11_ThreeAttempts ==
    Commands(ladder) = <<"umount", "fuser", "umount", "fuser", "umount">>

\* C12: the lazy unmount is issued at most once, only after the third plain
\* unmount and only right after a query that followed it reported the path
\* mounted; and whenever a query of the call reports the path not mounted, the
\* call's next step is to return True, with no lazy unmount unless all three
\* attempts were made.
C12_LazyOnlyAtTheEnd ==
    /\ [](\A k \in 1..Len(ladder) : ladder[k] = "lazy" =>
            /\ k > 2 /\ ladder[k - 1] = "mounted" /\ ladder[k - 2] = "umount"
            /\ Count(SubSeq(ladder, 1, k), "umount") = 3
            /\ Count(SubSeq(ladder, 1, k), "lazy") = 1)
    /\ [][InForceUnmount /\ ladder # <<>> /\ ladder[Len(ladder)] = "clear"
            => Returns /\ ret' = "True"]_vars

\* C12 happens: the path is reported unmounted after the second attempt of
\* three and no lazy unmount was issued
C12_ClearAfterSecondAttempt ==
    /\ InForceUnmount /\ Top.i = 1
    /\ ladder = <<"mounted", "umount", "mounted", "mounted", "fuser", "umount", "clear">>

\* C13: a force_unmount call returns True or False; it returns False exactly
\* when the path exists, all three attempts and the lazy unmount were made and
\* the last query still reported the path mounted; so when it returns True the
\* path does not exist or the last query reported it not mounted.
C13_FalseOnlyWhenStillMounted ==
    [][InForceUnmount /\ Returns =>
        /\ ret' \in {"True", "False"}
        /\ ret' = "False" <=>
              /\ Top.arg \in exists
              /\ Count(ladder, "umount") = 3 /\ Count(ladder, "lazy") = 1
              /\ ladder[Len(ladder)] = "mounted"
        /\ ret' = "True" =>
              \/ Top.arg \notin exists
              \/ ladder # <<>> /\ ladder[Len(ladder)] = "clear"]_vars

\* C13 happens: after the lazy unmount the final query reports the path mounted
C13_StillMountedAtTheEnd ==
    /\ InForceUnmount /\ Top.arg \in exists
    /\ Count(ladder, "lazy") = 1 /\ ladder[Len(ladder)] = "mounted"

\* C14: from the moment an unmount_all call begins with nothing mounted,
\* through that call and a second one begun right after it, nothing is
\* mounted and no exception (a KeyboardInterrupt aside) has left unmount_all.
C14_CleanSweepChangesNothing ==
    cleanSweeps >= 1 => mounted = {} /\ ~sweepRaised

\* C14 happens: Final-Cleanup's unmount_all began with nothing mounted and
\* returned, the final sync failed, and the handler's unmount_all, the second
\* call in a row, returned too
C14_SweptTwice ==
    /\ cleanSweeps = 2 /\ errorSweep /\ worst # "interrupt"
    /\ stages # <<>> /\ stages[Len(stages)] = "Final-Cleanup"
    /\ mounted = {} /\ exitCode = 1

\* C15: no command of Create-Partitions is ever issued against a device that
\* had a partition mounted at /, /boot, /boot/efi, /home, /usr or /var when
\* validate_device ran: validate_device returned false for it.
C15_ProtectedDeviceUntouched ==
    guarded # {} =>
        \A k \in 1..Len(stack) : ~(stack[k].fn = "create_partitions" /\ stack[k].i >= 1)

\* C16: whatever the two size constants are, the partitions the mkpart
\* commands ask for are contiguous: the ESP ends at the ESP size in MiB, the
\* boot partition starts there and ends at the ESP size plus 1024 MiB for each
\* GiB of the boot size, and the persistence partition starts there and ends
\* at 100% of the device.
C16_LayoutContiguous ==
    /\ Len(plan) >= 1 =>
          plan[1].end = sizes.esp /\ plan[1].unit = "MiB"
    /\ Len(plan) >= 2 =>
          /\ plan[2].start = sizes.esp /\ plan[2].start = plan[1].end
          /\ plan[2].end = sizes.esp + sizes.boot * 1024 /\ plan[2].unit = "MiB"
    /\ Len(plan) >= 3 =>
          /\ plan[3].start = sizes.esp + sizes.boot * 1024 /\ plan[3].start = plan[2].end
          /\ plan[3].end = 100 /\ plan[3].unit = "%"

\* C16 happens: the three partitions were asked for with size constants that
\* are not the program's
C16_OtherLayoutIssued ==
    Len(plan) = 3 /\ sizes.esp = 1024 /\ sizes.boot = 8

Ran == probe.o # "none" /\ stack = <<>>

\* what the lone call returns when, under the same options, its process exits
\* non-zero
OnNonZero ==
    run_cmd("nonzero", probe.nonempty, probe.check, probe.capture, probe.ignore_error).val

\* C18: a run_cmd call whose process succeeds, exits non-zero, times out or
\* cannot be spawned returns and raises nothing; what it returns for a timeout
\* differs from what it returns for a non-zero exit under the same options;
\* for a non-zero exit of a required command (check, no ignore_error) it
\* returns False; for a non-zero exit or a timeout of an advisory command
\* (ignore_error) it returns None.
C18_ResultClassifiesOutcome ==
    Ran /\ probe.o \in {"ok", "nonzero", "timeout", "oserror"} =>
        /\ exitCode = Running
        /\ probe.o = "timeout" => ret # OnNonZero
        /\ probe.o = "nonzero" /\ probe.check /\ ~probe.ignore_error => ret = "False"
        /\ probe.o \in {"nonzero", "timeout"} /\ probe.ignore_error => ret = "None"

\* the mount points in trail l that a mount command mounted and that no later
\* force_unmount call names
Held(l) ==
    {t \in MountTargets :
        \E k \in 1..Len(l) :
            /\ l[k] = [op |-> "mount", at |-> t, ok |-> TRUE]
            /\ \A j \in (k + 1)..Len(l) : ~(l[j].op = "force_unmount" /\ l[j].at = t)}

\* a stage has handed control back to main: it returned, or it raised
BackInMain == Len(stack) = 1 /\ Top.fn = "main"

\* C19: every mount command of a stage onto one of the four mount points comes
\* after a force_unmount call of the same stage on the same mount point, with
\* no other mount command onto that mount point between the two.
C19_ClearedBeforeMount ==
    \A k \in 1..Len(trail) :
        trail[k].op = "mount" =>
            /\ trail[k].at \in {ISO_MOUNT, USB_BOOT, USB_PERSIST, ESP_MOUNT}
            /\ \E j \in 1..(k - 1) :
                  /\ trail[j].op = "force_unmount" /\ trail[j].at = trail[k].at
                  /\ \A m \in (j + 1)..(k - 1) :
                        ~(trail[m].op = "mount" /\ trail[m].at = trail[k].at)

\* C19 happens: Install-Bootloader has mounted the boot partition and the ESP
C19_BothMounted ==
    /\ stages # <<>> /\ stages[Len(stages)] = "Install-Bootloader"
    /\ \E j, k \in 1..Len(trail) :
          /\ j < k
          /\ trail[j] = [op |-> "mount", at |-> USB_BOOT, ok |-> TRUE]
          /\ trail[k] = [op |-> "mount", at |-> ESP_MOUNT, ok |-> TRUE]

\* C20 as stated: whenever a stage has handed control back to main, by a
\* return or by an exception, it has called force_unmount on every mount point
\* it mounted.
C20_ReleasedOnEveryExit ==
    BackInMain /\ Top.pc \in {"try", "except_ki", "except_exc"} => Held(trail) = {}

\* C20, amended: whenever a stage has returned to main, after running to its
\* end or after an early failure, it has called force_unmount on every mount
\* point it mounted; a stage that an exception leaves makes no such call, and
\* then main starts no further stage but calls unmount_all, which by the time
\* it returns has called force_unmount on every mount point whose directory
\* exists.
C20_ReleasedOnReturn ==
    /\ BackInMain /\ Top.pc = "try" => Held(trail) = {}
    /\ BackInMain /\ Top.pc = "handler_exit" =>
          \A t \in {ISO_MOUNT, USB_BOOT, USB_PERSIST, ESP_MOUNT} \cap exists :
              \E k \in 1..Len(trail) : trail[k] = [op |-> "force_unmount", at |-> t, ok |-> TRUE]

\* C20 happens: Copy-Image-Contents mounted the image, failed to mount the boot
\* partition, released the image and returned
C20_EarlyFailureReleased ==
    /\ BackInMain /\ Top.pc = "try"
    /\ stages # <<>> /\ stages[Len(stages)] = "Copy-Image-Contents"
    /\ \E k \in 1..Len(trail) :
          /\ trail[k] = [op |-> "mount", at |-> ISO_MOUNT, ok |-> TRUE]
          /\ \E j \in (k + 1)..Len(trail) : trail[j] = [op |-> "mount", at |-> USB_BOOT, ok |-> FALSE]
    /\ ret = "False"

\* the run has passed the confirmation: main is in its try block or in one of
\* its except clauses
Confirmed ==
    stack # <<>> /\ stack[1].pc \in {"try", "except_ki", "except_exc", "handler_exit"}

\* C21 as stated: every run that passes the confirmation comes to an end, and
\* with exit code 0 or 1.
C21_ExitsZeroOrOne ==
    /\ Confirmed ~> Exited
    /\ [][Confirmed /\ Exited' => exitCode' \in {0, 1}]_vars

\* C21, amended: no force_unmount call goes beyond its three attempts and no
\* wait_for_partitions call beyond its fifteen polls; every run that passes the
\* confirmation comes to an end (each command ends by itself or by its
\* timeout, and the copy, which has none, is taken to end); it ends with exit
\* code 0 or 1, or, only when a KeyboardInterrupt is delivered while an except
\* clause of main is cleaning up, of the uncaught interrupt (shown as 130).
C21_BoundedAndTerminates ==
    /\ [](\A k \in 1..Len(stack) :
            /\ stack[k].fn = "force_unmount" => stack[k].i <= 3
            /\ stack[k].fn = "wait_for_partitions" => stack[k].i <= 15)
    /\ Confirmed ~> Exited
    /\ [][Confirmed /\ Exited' =>
            \/ exitCode' \in {0, 1}
            \/ exitCode' = 130 /\ InHandler]_vars

\* C21 happens: a run that passed the confirmation went through all eight
\* stages, with a command failing on the way, and exited with code 0
C21_LongestRunExited ==
    /\ Exited /\ exitCode = 0
    /\ Len(stages) = 8
    /\ worst # "none"

\* the stage's mount command onto t exited with status zero
MountSucceeded(t) ==
    \E n \in 1..Len(trail) : trail[n].op = "mount" /\ trail[n].at = t /\ trail[n].ok

\* C22: a stage goes into the block guarded by its mount command only when the
\* command exited with status zero: install_bootloader is at its UEFI install
\* (or past it, releasing the ESP) only after the mount of the ESP succeeded,
\* and create_readme has written README.txt (and is releasing the boot
\* partition) only after the mount of the boot partition succeeded.
C22_GuardedByMountSuccess ==
    \A k \in 1..Len(stack) :
        /\ stack[k].fn = "install_bootloader" /\ stack[k].pc \in {"uefi", "unmount_boot"}
              => MountSucceeded(ESP_MOUNT)
        /\ stack[k].fn = "create_readme" /\ stack[k].pc = "done"
              => MountSucceeded(USB_BOOT)

\* C23: when wait_for_partitions returns, it returns True only if its last
\* tests found all three partition nodes, it has made at most wait_timeout
\* polls, and create_partitions goes on to the formatting commands whatever the
\* result.
C23_TrueOnlyWhenAllThree ==
    [][stack # <<>> /\ Top.fn = "wait_for_partitions" /\ Returns =>
          /\ ret' = "True" => Top.seen = Partitions
          /\ Top.i <= wait_timeout
          /\ stack'[Len(stack')].fn = "create_partitions"
          /\ PartitionCommands[stack'[Len(stack')].i + 1].op = "umount"]_vars
====
